---- MODULE Spec2Model ----
(***************************************************************************)
(* The local multi-service supervisor of src/run.py as a state machine.    *)
(*                                                                         *)
(* The supervisor is one thread of control: it reaps a fixed list of       *)
(* ports, runs three pre-flight steps, launches the declared services in   *)
(* order (start_service_with_retry), waits for the readiness of the        *)
(* journal service (wait_for_service), prints a status report and idles.   *)
(* The environment delivers SIGINT and SIGTERM to the supervisor and lets  *)
(* spawned processes exit at any time.  A child that has exited stays a    *)
(* zombie (its pid and process group still exist for getpgid/killpg)       *)
(* until the supervisor calls poll() or communicate() on its handle.       *)
(***************************************************************************)
EXTENDS Integers, Sequences, FiniteSets, TLC

----------------------------------------------------------------------------
(* Program constants *)

\* src/run.py:131  the ports the pre-flight sweep reaps, in order
ReapPorts == <<5005, 5007, 5000, 5175>>

\* src/run.py:143-174  the declared services, in order
services ==
  << [name |-> "journal_service",      port |-> 5000],
     [name |-> "forex_data_service",   port |-> 5010],
     [name |-> "frontend",             port |-> 5175],
     [name |-> "customer_service",     port |-> 5005],
     [name |-> "trade_mentor_service", port |-> 5008] >>

\* src/run.py:183  the services whose readiness the launch loop waits for
CriticalNames == {"journal_service"}

\* src/run.py:93  the default of the parameter max_retries
DefaultMaxRetries == 3

\* src/run.py:77  timeout=30 (seconds)
timeout == 30

\* src/run.py:83  requests.get(..., timeout=1)
RequestTimeout == 1

\* src/run.py:89  time.sleep(1)
PollInterval == 1

\* src/run.py:84  the only status code wait_for_service accepts
HTTP_OK == 200

(* Model bounds *)

\* most ports held by a stale process when the supervisor starts
MaxStale == 1

\* largest max_retries start_service_with_retry is checked with
MaxRetries == 4

\* most lines (pids) one lsof call prints for a port
MaxPids == 2

----------------------------------------------------------------------------
NumServices == Len(services)
ServiceIds  == 1..NumServices

DeclaredPorts == {services[s].port : s \in ServiceIds}
SweptPorts    == {ReapPorts[k] : k \in 1..Len(ReapPorts)}
AllPorts      == DeclaredPorts \cup SweptPorts

\* what one health request can produce: an HTTP status, or a network error
StatusCodes == {200, 204, 503}
Responses ==
  {[kind |-> "status", code |-> c] : c \in StatusCodes}
    \cup {[kind |-> "refused", code |-> 0], [kind |-> "timeout", code |-> 0]}

\* no health request has completed in the current call of wait_for_service
NoResponse == [kind |-> "none", code |-> 0]

\* src/run.py:73  what os.kill(int(pid), SIGKILL) does for one line of lsof
\* output: the process is killed ("ok"), int() raises ValueError
\* ("garbage"), os.kill raises PermissionError ("denied") or
\* ProcessLookupError ("gone")
PidKinds == {"ok", "garbage", "denied", "gone"}

\* src/run.py:68-69  the outcomes of the lsof call: subprocess.run raises
\* (ran = FALSE), or it returns with zero or more lines of output
LsofResults ==
  {[ran |-> FALSE, pids |-> <<>>]}
    \cup {[ran |-> TRUE, pids |-> l] :
            l \in UNION {[1..n -> PidKinds] : n \in 0..MaxPids}}

\* kill_process_on_port has not been called, or the script has moved on
NoLsof == [ran |-> TRUE, pids |-> <<>>]

VARIABLES
  pc,          \* the supervisor's position in the script
  reapIdx,     \* index into ReapPorts of the port reaped next
  bound,       \* ports a stale process (from an earlier run) is bound to
  reapedPorts, \* ports kill_process_on_port has been invoked on
  lsofResult,  \* kill_process_on_port: what the lsof call of the latest call
               \*   produced: whether it ran, and per line of its output what
               \*   line 73 does with it (see PidKinds)
  killedPids,  \* the lines of that output whose process was sent SIGKILL
  reapError,   \* the exception that call's except clause logged, or "none"
  svc,         \* index of the service the launch loop is at
  max_retries, \* start_service_with_retry: the parameter max_retries
  attempt,     \* start_service_with_retry: the loop variable `attempt`
  pstate,      \* service -> state of the process of its current or last
               \*   attempt: "absent" (never spawned, or reaped), "alive",
               \*   "zombie" (exited, not yet reaped)
  orphans,     \* services with a live process no handle refers to any more
  processes,   \* the global list `processes` (the registry): one handle per
               \*   launched service, named by the service's index
  sigterm,     \* services whose process group has been sent SIGTERM
  launched,    \* services start_service_with_retry was called for, in order
  launchResult,\* service -> "none" | "running" | "handle" | "None"
  spawns,      \* Popen calls made by the launch in progress or just returned
  settles,     \* settle sleeps completed by that launch
  backoffs,    \* backoff sleeps completed by that launch
  waitResult,  \* service -> "none" | "waiting" | "True" | "False"
  elapsed,     \* wait_for_service: time.time() - start_time, in seconds
  response,    \* wait_for_service: what the last health request produced
  status,      \* service -> what the status report printed (TRUE: Running)
  handlerRan,  \* signal_handler has been invoked
  exitCode,    \* exit status of the supervisor once pc = "exited"
  exitCause    \* "none" | "preflight" | "handler" | "uncaught" | "SIGTERM"

vars == <<pc, reapIdx, bound, reapedPorts, lsofResult, killedPids,
          reapError, svc, max_retries, attempt,
          pstate, orphans, processes, sigterm, launched, launchResult,
          spawns, settles, backoffs, waitResult, elapsed, response, status,
          handlerRan, exitCode, exitCause>>

\* the state when the script reaches line 130: the handler is installed
\* (line 38), nothing has been reaped or spawned
InitWith(stale, retries) ==
  /\ pc = "reap"
  /\ reapIdx = 1
  /\ bound \in stale
  /\ reapedPorts = {}
  /\ lsofResult = NoLsof
  /\ killedPids = {}
  /\ reapError = "none"
  /\ svc = 1
  /\ max_retries \in retries
  /\ attempt = 0
  /\ pstate = [s \in ServiceIds |-> "absent"]
  /\ orphans = {}
  /\ processes = <<>>
  /\ sigterm = {}
  /\ launched = <<>>
  /\ launchResult = [s \in ServiceIds |-> "none"]
  /\ spawns = 0
  /\ settles = 0
  /\ backoffs = 0
  /\ waitResult = [s \in ServiceIds |-> "none"]
  /\ elapsed = 0
  /\ response = NoResponse
  /\ status = [s \in ServiceIds |-> FALSE]
  /\ handlerRan = FALSE
  /\ exitCode = 0
  /\ exitCause = "none"

\* src/run.py:178  the launch loop calls start_service_with_retry(service),
\* leaving max_retries at its default
Init ==
  InitWith({b \in SUBSET AllPorts : Cardinality(b) <= MaxStale},
           {DefaultMaxRetries})

\* src/run.py:93  start_service_with_retry for any max_retries >= 1, on a
\* host with no stale port
InitAnyRetries == InitWith({{}}, 1..MaxRetries)

----------------------------------------------------------------------------
(* Helpers shared by the actions *)

reapVars   ==
  <<reapIdx, bound, reapedPorts, lsofResult, killedPids, reapError>>
countVars  == <<spawns, settles, backoffs>>
launchVars ==
  <<svc, max_retries, attempt, launched, launchResult, countVars>>
waitVars   == <<waitResult, elapsed, response>>
procVars   == <<pstate, orphans, processes, sigterm>>
exitVars   == <<exitCode, exitCause>>

Registered == {processes[k] : k \in 1..Len(processes)}

\* the supervisor process ends with this exit status
Exit(code, cause) ==
  /\ pc' = "exited"
  /\ exitCode' = code
  /\ exitCause' = cause

\* src/run.py:177  the for loop moves to the next service, or falls through
\* to the status report after the last one
NextService ==
  IF svc < NumServices
    THEN pc' = "launch" /\ svc' = svc + 1
    ELSE pc' = "report" /\ svc' = svc

\* variant: the retry test allows one attempt more
RetriesRemainOneMore(a) == a < max_retries

\* variant: the retry test gives up one attempt early
RetriesRemainOneShort(a) == a < max_retries - 2

\* src/run.py:123  if attempt < max_retries - 1
RetriesRemain(a) == a < max_retries - 1

\* variant: a service that cannot be started ends the run
LaunchFailedAborts == Exit(1, "launch") /\ UNCHANGED svc

\* src/run.py:185-186  launch returned None: print and continue the loop
LaunchFailedBranch == NextService /\ UNCHANGED exitVars

\* src/run.py:120-128  the end of a failed attempt: back off and retry, or
\* give up and return None to the launch loop
AttemptFailed ==
  IF RetriesRemain(attempt)
    THEN pc' = "backoff" /\ UNCHANGED <<svc, launchResult, exitVars>>
    ELSE /\ launchResult' = [launchResult EXCEPT ![svc] = "None"]
         /\ LaunchFailedBranch

----------------------------------------------------------------------------
(* PortReaper: kill_process_on_port, and the sweep that calls it *)

\* src/run.py:131-132  the sweep advances to the next port, or to pre-flight
ReapAdvance ==
  IF reapIdx < Len(ReapPorts)
    THEN pc' = "reap" /\ reapIdx' = reapIdx + 1
    ELSE pc' = "deps" /\ reapIdx' = reapIdx

\* src/run.py:70-73  the position of the first line whose os.kill(int(pid))
\* raises, 0 when none does
FirstFailure(pids) ==
  LET failing == {i \in 1..Len(pids) : pids[i] # "ok"}
  IN  IF failing = {} THEN 0
      ELSE CHOOSE i \in failing : \A j \in failing : i <= j

\* src/run.py:70-73  the for loop runs inside the try block: it kills the
\* listed processes in order and ends at the first line that raises
KilledBy(pids) ==
  {i \in 1..Len(pids) : FirstFailure(pids) = 0 \/ i < FirstFailure(pids)}

\* src/run.py:68, 73  the exception raised inside the try block, if any
RaisedIn(r) ==
  IF ~r.ran THEN "lookup"
  ELSE IF FirstFailure(r.pids) = 0 THEN "none"
  ELSE r.pids[FirstFailure(r.pids)]

\* variant: the except clause names OSError, which ValueError is not
ExceptCatchesOSError(e) == e \in {"lookup", "denied", "gone"}

\* src/run.py:74  except Exception as e: every exception the body raises
\* is an Exception (FileNotFoundError, ValueError, PermissionError,
\* ProcessLookupError)
ExceptCatches(e) == e \in {"lookup"} \cup (PidKinds \ {"ok"})

\* the port is free after the call when every process lsof listed on it
\* has been killed or was already gone
FreedBy(r) ==
  /\ r.ran
  /\ \A i \in 1..Len(r.pids) :
       \/ i \in KilledBy(r.pids)
       \/ r.pids[i] = "gone"

\* src/run.py:65-75  kill_process_on_port(ReapPorts[reapIdx]): lsof lists
\* the pids bound to the port (none when the port is free), the loop kills
\* them, the except clause logs the exception that ended the try block and
\* the function returns to the sweep
KillProcessOnPort ==
  /\ pc = "reap"
  /\ \E r \in LsofResults :
       /\ r.ran => (r.pids # <<>> <=> ReapPorts[reapIdx] \in bound)
       /\ lsofResult' = r
       /\ killedPids' = IF r.ran THEN KilledBy(r.pids) ELSE {}
       /\ bound' = IF FreedBy(r) THEN bound \ {ReapPorts[reapIdx]} ELSE bound
       /\ reapedPorts' = reapedPorts \cup {ReapPorts[reapIdx]}
       /\ IF RaisedIn(r) = "none" \/ ExceptCatches(RaisedIn(r))
            THEN /\ reapError' = RaisedIn(r)
                 /\ ReapAdvance
                 /\ UNCHANGED exitVars
            ELSE /\ reapError' = "none"
                 /\ reapIdx' = reapIdx
                 /\ Exit(1, "uncaught")
  /\ UNCHANGED <<launchVars, waitVars, procVars, status, handlerRan>>

----------------------------------------------------------------------------
(* Pre-flight collaborators: each succeeds, or ends the run with status 1 *)

\* variant: a failed pre-flight step is reported and the script goes on to
\* the step after it
PreflightFailedWarns(next) ==
  /\ pc' = next
  /\ exitCause' = "preflight"
  /\ exitCode' = exitCode

\* src/run.py:25-27, 46-48, 61-63  except CalledProcessError: sys.exit(1)
\* (next: the step that would have followed)
PreflightFailed(next) == Exit(1, "preflight")

\* src/run.py:12-29, 135  (the record of the last kill_process_on_port call
\* is dropped here)
InstallPythonDependencies ==
  /\ pc = "deps"
  /\ \E ok \in BOOLEAN :
       IF ok THEN pc' = "build" /\ UNCHANGED exitVars
             ELSE PreflightFailed("build")
  /\ lsofResult' = NoLsof
  /\ killedPids' = {}
  /\ reapError' = "none"
  /\ UNCHANGED <<reapIdx, bound, reapedPorts, launchVars, waitVars, procVars,
                 status, handlerRan>>

\* src/run.py:40-48, 138
BuildFrontend ==
  /\ pc = "build"
  /\ \E ok \in BOOLEAN :
       IF ok THEN pc' = "db" /\ UNCHANGED exitVars
             ELSE PreflightFailed("db")
  /\ UNCHANGED <<reapVars, launchVars, waitVars, procVars, status, handlerRan>>

\* src/run.py:50-63, 141
SetupDatabase ==
  /\ pc = "db"
  /\ \E ok \in BOOLEAN :
       IF ok THEN pc' = "launch" /\ UNCHANGED exitVars
             ELSE PreflightFailed("launch")
  /\ UNCHANGED <<reapVars, launchVars, waitVars, procVars, status, handlerRan>>

----------------------------------------------------------------------------
(* ServiceLauncher: start_service_with_retry, called from the launch loop *)

\* variant: the handle is returned after the settle sleep without a poll
PollSkipped(s) == TRUE

\* variant: the liveness test asks whether the pid still exists, which an
\* exited process that has not been reaped satisfies
PollIsNoneByPid(s) == pstate[s] # "absent"

\* src/run.py:112  pro.poll() is None
PollIsNone(s) == pstate[s] = "alive"

\* src/run.py:183  if service['name'] in ['journal_service']
IsCritical(s) == services[s].name \in CriticalNames

\* src/run.py:178, 95  pro = start_service_with_retry(service): the call and
\* the start of its retry loop
LaunchCall ==
  /\ pc = "launch"
  /\ launched' = Append(launched, svc)
  /\ launchResult' = [launchResult EXCEPT ![svc] = "running"]
  /\ attempt' = 0
  /\ spawns' = 0
  /\ settles' = 0
  /\ backoffs' = 0
  /\ response' = NoResponse
  /\ pc' = "spawn"
  /\ UNCHANGED <<max_retries, reapVars, svc, waitResult, elapsed, procVars,
                 status, handlerRan, exitVars>>

\* src/run.py:98-106  subprocess.Popen(...): the process is created in its own
\* session and group, or Popen raises and the except clause (120) logs it
Spawn ==
  /\ pc = "spawn"
  /\ spawns' = spawns + 1
  /\ \E ok \in BOOLEAN :
       IF ok
         THEN /\ pstate' = [pstate EXCEPT ![svc] = "alive"]
              /\ pc' = "settle"
              /\ UNCHANGED <<svc, launchResult, exitVars>>
         ELSE /\ AttemptFailed
              /\ UNCHANGED pstate
  /\ UNCHANGED <<max_retries, reapVars, attempt, launched, settles, backoffs,
                 waitVars, orphans, processes, sigterm, status, handlerRan>>

\* variant: the launch loop registers the handle and moves on without the
\* readiness wait
LaunchSucceededNoWait ==
  /\ processes' = Append(processes, svc)
  /\ launchResult' = [launchResult EXCEPT ![svc] = "handle"]
  /\ NextService
  /\ UNCHANGED waitVars

\* src/run.py:179-184  the launch returned a handle: register it, and for a
\* critical service enter wait_for_service (80-81: start_time, first test)
LaunchSucceededBranch ==
  /\ processes' = Append(processes, svc)
  /\ launchResult' = [launchResult EXCEPT ![svc] = "handle"]
  /\ IF IsCritical(svc)
       THEN /\ pc' = "wait_req"
            /\ elapsed' = 0
            /\ waitResult' = [waitResult EXCEPT ![svc] = "waiting"]
            /\ UNCHANGED <<svc, response>>
       ELSE /\ NextService
            /\ UNCHANGED waitVars

\* src/run.py:117  output, _ = pro.communicate(): no timeout is passed, so
\* the call reads the attempt's stdout pipe until end of file.  The pipe is
\* at end of file when the exited process was its last writer (eof); while
\* a descendant of the attempt that inherited the pipe is still running,
\* the call blocks
Communicate(eof) ==
  IF eof
    THEN AttemptFailed
    ELSE pc' = "collect" /\ UNCHANGED <<svc, launchResult, exitVars>>

\* src/run.py:109-118  the settle sleep ends; poll() decides: a live process
\* is returned, an exited one is reaped and its output read
SettleEnd ==
  /\ pc = "settle"
  /\ settles' = settles + 1
  /\ IF PollIsNone(svc)
       THEN /\ LaunchSucceededBranch
            /\ UNCHANGED <<pstate, exitVars>>
       ELSE /\ pstate' = [pstate EXCEPT ![svc] = "absent"]
            /\ \E eof \in BOOLEAN : Communicate(eof)
            /\ UNCHANGED <<processes, waitVars>>
  /\ UNCHANGED <<max_retries, reapVars, attempt, launched, spawns, backoffs,
                 orphans, sigterm, status, handlerRan>>

\* src/run.py:117-118  environment: the last descendant holding the stdout
\* pipe of the failed attempt exits or closes it; communicate() returns and
\* the attempt ends as a failed one
CollectEnd ==
  /\ pc = "collect"
  /\ AttemptFailed
  /\ UNCHANGED <<max_retries, reapVars, attempt, launched, countVars, waitVars,
                 procVars, status, handlerRan>>

\* src/run.py:123-125, 95  the backoff sleep ends and the loop takes the next
\* attempt
BackoffEnd ==
  /\ pc = "backoff"
  /\ backoffs' = backoffs + 1
  /\ attempt' = attempt + 1
  /\ pc' = "spawn"
  /\ UNCHANGED <<max_retries, reapVars, svc, launched, launchResult, spawns,
                 settles, waitVars, procVars, status, handlerRan, exitVars>>

\* environment: a spawned process exits on its own (crash, bind failure, or
\* after a SIGTERM); it stays a zombie until the supervisor polls it
ProcExit ==
  /\ pc # "exited"
  /\ \E s \in ServiceIds :
       /\ pstate[s] = "alive"
       /\ pstate' = [pstate EXCEPT ![s] = "zombie"]
  /\ UNCHANGED <<pc, reapVars, launchVars, waitVars, orphans, processes,
                 sigterm, status, handlerRan, exitVars>>

----------------------------------------------------------------------------
(* ReadinessWaiter: wait_for_service *)

\* src/run.py:84  if response.status_code == 200
ResponseReady(resp) == resp.kind = "status" /\ resp.code = HTTP_OK

\* src/run.py:81  while time.time() - start_time < timeout
WithinTimeout(t) == t < timeout

\* variant: a readiness wait that times out ends the launch loop
WaitReturnStopsOnFalse(result) ==
  /\ waitResult' = [waitResult EXCEPT ![svc] = result]
  /\ elapsed' = 0
  /\ IF result = "False"
       THEN pc' = "report" /\ svc' = svc
       ELSE NextService

\* src/run.py:86, 91  wait_for_service returns to the launch loop, which goes
\* on to the next service whatever the result (184: the result is not used)
WaitReturn(result) ==
  /\ waitResult' = [waitResult EXCEPT ![svc] = result]
  /\ elapsed' = 0
  /\ NextService

\* the ways requests.get fails: connection refused, or its own timeout
NetworkErrors == {"refused", "timeout"}

\* src/run.py:89  the iteration ends without a return: the loop goes to its
\* poll sleep, d seconds after the request was issued
PollAgain(d) ==
  /\ pc' = "wait_sleep"
  /\ elapsed' = elapsed + d
  /\ UNCHANGED <<waitResult, svc, exitVars>>

\* variant: no except clause around the request; its exception leaves
\* wait_for_service and the script
RequestRaisedPropagates(d) ==
  /\ Exit(1, "uncaught")
  /\ UNCHANGED <<waitResult, svc, elapsed>>

\* src/run.py:87-88  except: pass  -- the exception of requests.get is
\* dropped and the iteration ends like one with an unready answer
RequestRaised(d) == PollAgain(d)

\* src/run.py:83-88  one health request: it returns a status or fails at once
\* or runs into its own timeout; only a ready response returns True
WaitRequest ==
  /\ pc = "wait_req"
  /\ \E resp \in Responses, d \in 0..RequestTimeout :
       /\ resp.kind = "timeout" => d = RequestTimeout
       /\ response' = resp
       /\ CASE ResponseReady(resp) ->
                 WaitReturn("True") /\ UNCHANGED exitVars
            [] resp.kind \in NetworkErrors ->
                 RequestRaised(d)
            [] OTHER ->
                 PollAgain(d)
  /\ UNCHANGED <<max_retries, reapVars, attempt, launched, launchResult,
                 countVars, procVars, status, handlerRan>>

\* src/run.py:89, 81, 90-91  the poll sleep ends and the loop test runs again
WaitSleep ==
  /\ pc = "wait_sleep"
  /\ response' = NoResponse
  /\ IF WithinTimeout(elapsed + PollInterval)
       THEN /\ pc' = "wait_req"
            /\ elapsed' = elapsed + PollInterval
            /\ UNCHANGED <<waitResult, svc>>
       ELSE WaitReturn("False")
  /\ UNCHANGED <<max_retries, reapVars, attempt, launched, launchResult,
                 countVars, procVars, status, handlerRan, exitVars>>

----------------------------------------------------------------------------
(* Status report *)

\* src/run.py:191  i < len(processes) and processes[i].poll() is None
\* (the service's index is used as an index into the registry)
StatusRunning(i) == i <= Len(processes) /\ PollIsNone(processes[i])

\* src/run.py:188-194  the report; every poll() reaps an exited process.
\* The locals of the returned launch are dropped here.
Report ==
  /\ pc = "report"
  /\ status' = [i \in ServiceIds |-> StatusRunning(i)]
  /\ pstate' = [s \in ServiceIds |->
                  IF s \in Registered /\ pstate[s] = "zombie"
                    THEN "absent" ELSE pstate[s]]
  /\ attempt' = 0
  /\ spawns' = 0
  /\ settles' = 0
  /\ backoffs' = 0
  /\ response' = NoResponse
  /\ pc' = "idle"
  /\ UNCHANGED <<max_retries, reapVars, svc, launched, launchResult, waitResult,
                 elapsed, orphans, processes, sigterm, handlerRan, exitVars>>

----------------------------------------------------------------------------
(* SignalCoordinator: signal_handler, installed for SIGINT only (line 38) *)

\* src/run.py:38  signal.signal(signal.SIGINT, signal_handler)
Handled == {"SIGINT"}

\* variant: the lookup also fails for a process that has exited but has not
\* been reaped
GetpgidRaisesOnExited(s) == pstate[s] # "alive"

\* src/run.py:35  os.getpgid(p.pid) raises ProcessLookupError once the
\* process has been reaped; a live process or a zombie still has its group
GetpgidRaises(s) == pstate[s] = "absent"

\* the registry positions at which line 35 raises
GonePositions == {k \in 1..Len(processes) : GetpgidRaises(processes[k])}

\* src/run.py:33-35  the loop has no try: it signals the groups in registry
\* order up to the first handle whose lookup raises
HandlerSignalled ==
  LET last == IF GonePositions = {}
                THEN Len(processes)
                ELSE (CHOOSE k \in GonePositions :
                        \A j \in GonePositions : k <= j) - 1
  IN  {processes[k] : k \in 1..last}

\* src/run.py:33-36  the handler ends in ProcessLookupError instead of
\* SystemExit(0)
HandlerRaises == GonePositions # {}

\* variant: the handler empties the registry once it has gone through it
RegistryClearedByHandler == <<>>

\* src/run.py:33-35  the handler iterates over `processes` and assigns
\* nothing to it: the registry after the handler is the registry before
RegistryAfterHandler == processes

\* src/run.py:87-88  the bare except around the health request
InBareExcept == pc = "wait_req"

\* src/run.py:31-36  signal_handler runs in the main thread, inside whatever
\* statement was executing.  It ends in SystemExit(0) (line 36) or in the
\* ProcessLookupError of line 35, and the statement it interrupted decides
\* where that exception goes:
\*   87-88   bare except of wait_for_service: swallows both, then sleeps
\*   74      except Exception of kill_process_on_port: catches the lookup error
\*   120     except Exception of start_service_with_retry: catches the lookup
\*           error as a failed attempt, leaving the attempt's process behind
\*   otherwise SystemExit ends the run with status 0 and the lookup error is
\*   an uncaught exception, status 1
signal_handler ==
  /\ handlerRan' = TRUE
  /\ sigterm' = sigterm \cup HandlerSignalled
  /\ processes' = RegistryAfterHandler
  /\ UNCHANGED <<max_retries, bound, lsofResult, killedPids, reapError, attempt,
                 launched, countVars, waitResult, response, status>>
  /\ CASE InBareExcept ->
            /\ pc' = "wait_sleep"
            /\ \E d \in 0..RequestTimeout : elapsed' = elapsed + d
            /\ UNCHANGED <<reapIdx, reapedPorts, svc, launchResult, pstate,
                           orphans, exitVars>>
       [] ~InBareExcept /\ ~HandlerRaises ->
            /\ Exit(0, "handler")
            /\ UNCHANGED <<reapIdx, reapedPorts, svc, launchResult, pstate,
                           orphans, elapsed>>
       [] ~InBareExcept /\ HandlerRaises /\ pc = "reap" ->
            /\ reapedPorts' = reapedPorts \cup {ReapPorts[reapIdx]}
            /\ ReapAdvance
            /\ UNCHANGED <<svc, launchResult, pstate, orphans, elapsed,
                           exitVars>>
       [] ~InBareExcept /\ HandlerRaises
            /\ pc \in {"spawn", "settle", "collect"} ->
            /\ AttemptFailed
            /\ orphans' = IF pc = "settle" /\ pstate[svc] = "alive"
                            THEN orphans \cup {svc} ELSE orphans
            /\ pstate' = [pstate EXCEPT ![svc] = "absent"]
            /\ UNCHANGED <<reapIdx, reapedPorts, elapsed>>
       [] OTHER ->
            /\ Exit(1, "uncaught")
            /\ UNCHANGED <<reapIdx, reapedPorts, svc, launchResult, pstate,
                           orphans, elapsed>>

\* a signal without a handler has its default disposition: SIGTERM ends the
\* supervisor at once (status 128 + 15) and nothing is sent to any group
DefaultDisposition ==
  /\ Exit(128 + 15, "SIGTERM")
  /\ UNCHANGED <<reapVars, launchVars, waitVars, procVars, status, handlerRan>>

\* environment: SIGINT (Ctrl+C, kill -INT) reaches the supervisor
DeliverSIGINT ==
  /\ pc # "exited"
  /\ IF "SIGINT" \in Handled THEN signal_handler ELSE FALSE

\* environment: SIGTERM (kill, a service manager's stop) reaches the supervisor
DeliverSIGTERM ==
  /\ pc # "exited"
  /\ IF "SIGTERM" \in Handled THEN signal_handler ELSE DefaultDisposition

----------------------------------------------------------------------------
Next ==
  \/ KillProcessOnPort
  \/ InstallPythonDependencies
  \/ BuildFrontend
  \/ SetupDatabase
  \/ LaunchCall
  \/ Spawn
  \/ SettleEnd
  \/ CollectEnd
  \/ BackoffEnd
  \/ WaitRequest
  \/ WaitSleep
  \/ Report
  \/ ProcExit
  \/ DeliverSIGINT
  \/ DeliverSIGTERM

Spec == Init /\ [][Next]_vars

SpecAnyRetries == InitAnyRetries /\ [][Next]_vars

\* the steps of the supervisor's own thread of control: each is a statement
\* that ends by itself (a subprocess that is run to completion, a sleep of
\* fixed length, a request with a timeout of its own)
SupervisorStep ==
  \/ KillProcessOnPort
  \/ InstallPythonDependencies
  \/ BuildFrontend
  \/ SetupDatabase
  \/ LaunchCall
  \/ Spawn
  \/ SettleEnd
  \/ BackoffEnd
  \/ WaitRequest
  \/ WaitSleep
  \/ Report

\* a run in which no signal is delivered to the supervisor
NextNoSignal ==
  \/ SupervisorStep
  \/ CollectEnd
  \/ ProcExit

\* The run without signals, with the supervisor's thread always scheduled.
\* Nothing is assumed of the environment: a spawned process, or a descendant
\* holding a pipe, may run forever.
SpecNoSignal == Init /\ [][NextNoSignal]_vars /\ WF_vars(SupervisorStep)

\* The same run when, in addition, every pipe communicate() reads is closed
\* in the end.
SpecNoSignalPipesClose == SpecNoSignal /\ WF_vars(CollectEnd)

----------------------------------------------------------------------------
(* src/run_production_fixed.py: its signal_handler, applied to every        *)
(* registry and every set of registered processes that are already gone    *)

\* the registries the handler is applied to: any handles, in launch order
Registries ==
  {l \in UNION {[1..n -> ServiceIds] : n \in 0..NumServices} :
     \A j, k \in 1..Len(l) : j < k => l[j] < l[k]}

\* the state in which the handler of run_production_fixed.py is invoked: a
\* registry whose processes are alive, exited or already reaped (gone)
InitFixed ==
  /\ pc = "running"
  /\ processes \in Registries
  /\ pstate \in [ServiceIds -> {"absent", "alive", "zombie"}]
  /\ \A s \in ServiceIds : s \notin Registered => pstate[s] = "absent"
  /\ reapIdx = 1
  /\ bound = {}
  /\ reapedPorts = {}
  /\ lsofResult = NoLsof
  /\ killedPids = {}
  /\ reapError = "none"
  /\ svc = 1
  /\ max_retries = DefaultMaxRetries
  /\ attempt = 0
  /\ orphans = {}
  /\ sigterm = {}
  /\ launched = <<>>
  /\ launchResult = [s \in ServiceIds |-> "none"]
  /\ spawns = 0
  /\ settles = 0
  /\ backoffs = 0
  /\ waitResult = [s \in ServiceIds |-> "none"]
  /\ elapsed = 0
  /\ response = NoResponse
  /\ status = [s \in ServiceIds |-> FALSE]
  /\ handlerRan = FALSE
  /\ exitCode = 0
  /\ exitCause = "none"

\* src/run_production_fixed.py:21  os.killpg(os.getpgid(p.pid), SIGTERM) for
\* one handle: the group is signalled, or the lookup raises
KillpgOutcome(s) ==
  IF GetpgidRaises(s) THEN "ProcessLookupError" ELSE "sent"

\* variant: the loop body has no try, as in run.py
FixedCatchesNothing(e) == FALSE

\* src/run_production_fixed.py:22-23  except (ProcessLookupError, OSError):
\* pass
FixedCatches(e) == e \in {"ProcessLookupError", "OSError"}

\* src/run_production_fixed.py:18-23  the loop from registry position k on:
\* the groups it signals, and whether an exception leaves it
RECURSIVE FixedLoop(_)
FixedLoop(k) ==
  IF k > Len(processes)
    THEN [sent |-> {}, raised |-> FALSE]
    ELSE LET p == processes[k]
         IN  IF KillpgOutcome(p) = "sent"
               THEN LET rest == FixedLoop(k + 1)
                    IN  [sent |-> {p} \cup rest.sent, raised |-> rest.raised]
               ELSE IF FixedCatches(KillpgOutcome(p))
                      THEN FixedLoop(k + 1)
                      ELSE [sent |-> {}, raised |-> TRUE]

\* src/run_production_fixed.py:16-24  signal_handler, invoked outside any
\* try block: the loop, then sys.exit(0)
FixedSignalHandler ==
  /\ pc = "running"
  /\ handlerRan' = TRUE
  /\ sigterm' = sigterm \cup FixedLoop(1).sent
  /\ IF FixedLoop(1).raised THEN Exit(1, "uncaught") ELSE Exit(0, "handler")
  /\ UNCHANGED <<reapVars, launchVars, waitVars, pstate, orphans, processes,
                 status>>

SpecFixed == InitFixed /\ [][FixedSignalHandler]_vars

----------------------------------------------------------------------------
(* Properties *)

\* the service whose launch was called last
LastLaunched == launched[Len(launched)]

\* a step in which a signal is delivered to the supervisor
SignalStep == DeliverSIGINT \/ DeliverSIGTERM

\* C1: the status report marks a service Running if and only if that
\* service's own launched process is registered and alive when it is polled.
C1_StatusMatchesOwnProcess ==
  [][(pc = "report" /\ pc' = "idle") =>
       \A s \in ServiceIds :
         status'[s] = (s \in Registered /\ pstate[s] = "alive")]_vars

\* C2: once the termination handler has run, the supervisor starts no
\* further service: no launch is called and no process is spawned after it.
C2_NoLaunchAfterHandler ==
  [][handlerRan =>
       /\ launched' = launched
       /\ spawns' <= spawns
       /\ \A s \in ServiceIds :
            pstate'[s] = "alive" => pstate[s] = "alive"]_vars

\* C3: when the handler runs while a registered process is already gone, it
\* does not raise: every other registered group is sent SIGTERM and the
\* supervisor exits with code 0.
C3_HandlerToleratesGone ==
  [][(DeliverSIGINT /\ \E s \in Registered : GetpgidRaises(s)) =>
       /\ \A s \in Registered : ~GetpgidRaises(s) => s \in sigterm'
       /\ pc' = "exited"
       /\ exitCode' = 0]_vars

\* C4: delivery of either SIGINT or SIGTERM ends the supervisor only after
\* every registered process group has been sent SIGTERM.
C4_BothSignalsKillGroups ==
  [][(SignalStep /\ pc' = "exited") =>
       \A s \in Registered : ~GetpgidRaises(s) => s \in sigterm']_vars

\* C5: a termination signal delivered in the idle wait while every
\* registered process is alive makes every registered group receive SIGTERM
\* and the supervisor exit with code 0.
C5_IdleSignalKillsAllExitsZero ==
  [][(pc = "idle" /\ SignalStep /\ \A s \in Registered : pstate[s] = "alive") =>
       /\ Registered \subseteq sigterm'
       /\ pc' = "exited"
       /\ exitCode' = 0]_vars

\* the SIGINT half of C5, which the code satisfies: SIGINT in the idle wait
\* with every registered process alive signals every group and exits 0
SIGINT_IdleKillsAllExitsZero ==
  [][(/\ pc = "idle"
      /\ DeliverSIGINT
      /\ \A s \in Registered : pstate[s] = "alive") =>
       /\ Registered \subseteq sigterm'
       /\ pc' = "exited"
       /\ exitCode' = 0]_vars

\* C6: before any service is launched, the port reaper has been invoked on
\* the declared port of every service.
C6_DeclaredPortsReapedBeforeLaunch ==
  launched # <<>> => \A s \in ServiceIds : services[s].port \in reapedPorts

\* C7: a launch that returns None neither ends the run nor stops the loop:
\* start_service_with_retry is called exactly once per declared service, in
\* declared order, and the status report is reached with all of them
\* attempted; without a signal the run ends only in a failed pre-flight step.
C7_EveryServiceAttemptedOnce ==
  /\ launched = [k \in 1..Len(launched) |-> k]
  /\ Len(launched) <= NumServices
  /\ pc \in {"report", "idle"} => Len(launched) = NumServices
  /\ \A s \in ServiceIds :
       launchResult[s] = "None" =>
         pc = "exited" \/ pc \in {"report", "idle"} \/ svc > s
  /\ (pc = "exited" /\ ~handlerRan /\ exitCause # "SIGTERM") => launched = <<>>

\* C7 witness: the report has been printed after a service in the middle of
\* the list failed every attempt and its successors were launched.
C7_Witness ==
  /\ pc = "idle"
  /\ launchResult[1] = "handle"
  /\ launchResult[2] = "None"
  /\ launchResult[3] = "handle"
  /\ launchResult[NumServices] = "None"

\* C8: services are launched in declared order, each after the launch of its
\* predecessor has returned; the readiness wait of a critical service has
\* returned True or False before the launch of the next service is called,
\* and a healthy answer (status 200) makes it return True before that launch.
C8_CriticalWaitBeforeNextLaunch ==
  /\ \A k \in 1..Len(launched) : launched[k] = k
  /\ \A s \in ServiceIds :
       (\E k \in 1..Len(launched) : launched[k] > s) =>
          /\ launchResult[s] \in {"handle", "None"}
          /\ (services[s].name \in CriticalNames /\ launchResult[s] = "handle")
               => waitResult[s] \in {"True", "False"}
  /\ (response.kind = "status" /\ response.code = HTTP_OK) =>
       /\ waitResult[LastLaunched] = "True"
       /\ pc \in {"launch", "report", "exited"}

\* C8 witness: the second service has been spawned after the journal
\* service's readiness wait returned True.
C8_Witness ==
  /\ pc = "settle"
  /\ svc = 2
  /\ waitResult[1] = "True"

\* C9: a launch in which every attempt's process exits within the settle
\* window returns None after exactly max_retries spawns, one settle sleep per
\* spawn and max_retries - 1 backoff sleeps.
C9_ExhaustedLaunchCounts ==
  (/\ pc \in {"launch", "report"}
   /\ launched # <<>>
   /\ launchResult[LastLaunched] = "None"
   /\ settles = spawns)
    => /\ spawns = max_retries
       /\ settles = max_retries
       /\ backoffs = max_retries - 1

\* C9 witness: with more retries than the default, the first service's launch
\* has returned None after max_retries processes were spawned and found
\* exited.
C9_Witness ==
  /\ pc = "launch"
  /\ svc = 2
  /\ max_retries > DefaultMaxRetries
  /\ launchResult[1] = "None"
  /\ settles = max_retries

\* C10: a process alive at the end of its settle window is returned at once;
\* the handle returned is that of a live process, reached after attempt + 1
\* spawns and attempt backoffs (one spawn and no backoff when the first
\* attempt survives); a service that has a handle is never spawned again.
C10_FirstSurvivorReturned ==
  [][/\ (settles' = settles + 1 /\ pstate[svc] = "alive")
          => launchResult'[svc] = "handle"
     /\ (launchResult[svc] = "running" /\ launchResult'[svc] = "handle")
          => /\ pstate[svc] = "alive"
             /\ processes' = Append(processes, svc)
             /\ spawns' = attempt + 1
             /\ backoffs' = attempt
             /\ pc' \notin {"spawn", "settle", "backoff"}
     /\ \A s \in ServiceIds :
          launchResult[s] = "handle"
            => /\ launchResult'[s] = "handle"
               /\ (pstate'[s] = "alive" => pstate[s] = "alive")]_vars

\* C10 witness: the second service survived its first settle window: its
\* launch has returned a handle after one spawn and no backoff.
C10_Witness ==
  /\ pc = "launch"
  /\ svc = 3
  /\ launchResult[2] = "handle"
  /\ spawns = 1
  /\ settles = 1
  /\ backoffs = 0

\* C11: the first health request answered with any success status (2xx),
\* not only 200, makes wait_for_service return True at once.
C11_Any2xxReturnsTrue ==
  (response.kind = "status" /\ response.code \in 200..299) =>
     waitResult[LastLaunched] = "True"

\* C12: a network error on a health request (connection refused, request
\* timeout) never leaves wait_for_service: the poll counts as not ready and
\* the loop goes to its sleep; a wait in which no poll succeeded ends by
\* returning False to the launch loop, which goes on.
C12_NetworkErrorsSwallowed ==
  [][/\ (pc = "wait_req" /\ response'.kind \in NetworkErrors)
          => /\ pc' = "wait_sleep"
             /\ waitResult' = waitResult
             /\ exitCause' = "none"
     /\ (pc = "wait_sleep" /\ pc' \notin {"wait_sleep", "exited"})
          => \/ pc' = "wait_req" /\ waitResult' = waitResult
             \/ /\ ~WithinTimeout(elapsed + PollInterval)
                /\ waitResult'[svc] = "False"
                /\ pc' \in {"launch", "report"}
                /\ exitCause' = "none"]_vars

\* C12 witness: the last poll before the timeout ended in a request timeout
\* and the wait is in its final sleep, about to return False.
C12_Witness ==
  /\ pc = "wait_sleep"
  /\ response.kind = "timeout"
  /\ ~WithinTimeout(elapsed + PollInterval)
  /\ exitCause = "none"

\* C13: in a run without signals, a wait_for_service whose polls never
\* succeed returns False no earlier than timeout seconds after the call and
\* earlier than timeout plus one poll interval, whatever each request does.
C13_FalseWithinOnePollOfTimeout ==
  [][(/\ pc = "wait_sleep"
      /\ ~handlerRan
      /\ waitResult'[svc] = "False") =>
       /\ elapsed + PollInterval >= timeout
       /\ elapsed + PollInterval < timeout + PollInterval]_vars

\* C14: a failed pre-flight step (dependency installation, frontend build,
\* database creation) ends the supervisor with a non-zero exit code before
\* any service has been launched or spawned, and nothing is launched after.
C14_PreflightFailureAbortsBeforeLaunch ==
  /\ exitCause = "preflight" =>
       /\ pc = "exited"
       /\ exitCode # 0
       /\ launched = <<>>
       /\ processes = <<>>
       /\ \A s \in ServiceIds : pstate[s] = "absent" /\ launchResult[s] = "none"
  /\ pc \in {"launch", "spawn", "settle", "backoff"} => exitCause = "none"

\* C14 witness: the run has ended in a failed pre-flight step after the port
\* sweep was completed.
C14_Witness ==
  /\ pc = "exited"
  /\ exitCause = "preflight"
  /\ exitCode = 1
  /\ reapedPorts = SweptPorts

\* C15: when the readiness wait of a critical service times out, the
\* service's process is left as it is and stays registered (no signal is
\* sent to it, it is not spawned again), the run does not end, and the launch
\* loop goes on to the next service; a timed-out service is signalled only
\* by the termination handler.
C15_TimeoutLeavesProcessAndContinues ==
  [][/\ (waitResult[svc] = "waiting" /\ waitResult'[svc] = "False")
          => /\ svc \in Registered
             /\ processes' = processes
             /\ pstate' = pstate
             /\ sigterm' = sigterm
             /\ launched' = launched
             /\ launchResult' = launchResult
             /\ exitCause' = "none"
             /\ IF svc < NumServices
                  THEN pc' = "launch" /\ svc' = svc + 1
                  ELSE pc' = "report"
     /\ \A s \in ServiceIds :
          (waitResult[s] = "False" /\ ~handlerRan')
            => /\ s \in Registered
               /\ launchResult'[s] = "handle"
               /\ s \notin sigterm'
               /\ (pstate'[s] = "alive" => pstate[s] = "alive")]_vars

\* C15 witness: the journal service's readiness wait returned False, its
\* process is still alive and registered, and the second service has been
\* spawned.
C15_Witness ==
  /\ waitResult[1] = "False"
  /\ pstate[1] = "alive"
  /\ 1 \in Registered
  /\ 1 \notin sigterm
  /\ pc = "settle"
  /\ svc = 2

\* C16: a second invocation of the termination handler, made when every
\* registered process has been terminated by the first invocation, does not
\* raise and leaves the terminal state of a single invocation: the same
\* process groups signalled and the supervisor ended with exit code 0.
C16_SecondInvocationSameTerminalState ==
  [][(/\ DeliverSIGINT
      /\ handlerRan
      /\ Registered # {}
      /\ Registered \subseteq sigterm
      /\ \A s \in Registered : pstate[s] = "zombie") =>
       /\ exitCause' # "uncaught"
       /\ sigterm' = sigterm
       /\ pc' = "exited"
       /\ exitCode' = 0]_vars

\* the handler's own part of C16, which the code satisfies: the second
\* invocation raises no error and signals the same groups, and where it does
\* not run inside the bare except it ends the supervisor with code 0
SecondInvocationDoesNotRaise ==
  [][(/\ DeliverSIGINT
      /\ handlerRan
      /\ Registered # {}
      /\ Registered \subseteq sigterm
      /\ \A s \in Registered : pstate[s] = "zombie") =>
       /\ exitCause' # "uncaught"
       /\ sigterm' = sigterm
       /\ ~InBareExcept => pc' = "exited" /\ exitCode' = 0]_vars

\* C17: kill_process_on_port never raises to its caller.  Every call
\* returns to the sweep, which goes on with the next port (or with the
\* pre-flight steps after the last one): with no process on the port the
\* call does nothing, and a failed lookup, an unparsable pid, a permission
\* failure or a process already gone is logged by the except clause.
C17_ReaperNeverRaises ==
  [][(pc = "reap" /\ reapedPorts' # reapedPorts) =>
       /\ exitCause' = "none"
       /\ IF reapIdx < Len(ReapPorts)
            THEN pc' = "reap" /\ reapIdx' = reapIdx + 1
            ELSE pc' = "deps"
       /\ (lsofResult'.ran /\ lsofResult'.pids = <<>>) =>
            /\ killedPids' = {}
            /\ reapError' = "none"
            /\ bound' = bound
       /\ ~lsofResult'.ran => reapError' = "lookup"
       /\ \A i \in 1..Len(lsofResult'.pids) :
            (/\ lsofResult'.pids[i] # "ok"
             /\ \A j \in 1..(i - 1) : lsofResult'.pids[j] = "ok")
              => reapError' = lsofResult'.pids[i]]_vars

\* C17 witness: the call for the second port killed one process and then
\* met an unparsable pid; the sweep is at the third port.
C17_Witness ==
  /\ pc = "reap"
  /\ reapIdx = 3
  /\ lsofResult.pids = <<"ok", "garbage">>
  /\ killedPids = {1}
  /\ reapError = "garbage"
  /\ exitCause = "none"

\* C18: at most one process spawned for a service is alive at any time.  A
\* process comes to life only as the attempt of the service being launched,
\* when that service has no handle and the process of its previous attempt
\* has been found exited and reaped; a live process is never dropped by the
\* supervisor (no process is left alive without a handle or an attempt
\* referring to it).
C18_OneLiveProcessPerService ==
  [][/\ orphans' = {}
     /\ \A s \in ServiceIds :
          /\ (pstate[s] # "alive" /\ pstate'[s] = "alive")
               => /\ s = svc
                  /\ pstate[s] = "absent"
                  /\ s \notin Registered
                  /\ launchResult[s] = "running"
          /\ pstate[s] = "alive" => pstate'[s] \in {"alive", "zombie"}
          /\ launchResult[s] = "handle" => spawns' <= spawns \/ svc # s]_vars

\* C18 witness: the second attempt of the second service is alive in its
\* settle window, after the first attempt's process was found exited.
C18_Witness ==
  /\ pc = "settle"
  /\ svc = 2
  /\ attempt = 1
  /\ settles = 1
  /\ pstate[2] = "alive"
  /\ pstate[1] = "alive"
  /\ orphans = {}

\* C19: the registry changes only when the launch loop appends the handle
\* of the service whose launch just returned one; the termination handler
\* leaves it as it is, however often it is invoked.
C19_RegistryOnlyAppendedByLaunchLoop ==
  [][/\ processes' # processes =>
          /\ pc = "settle"
          /\ launchResult[svc] = "running"
          /\ launchResult'[svc] = "handle"
          /\ processes' = Append(processes, svc)
          /\ handlerRan' = handlerRan
     /\ DeliverSIGINT => processes' = processes]_vars

\* C19 witness: the handler has been invoked with the journal service
\* registered, and the registry holds that handle and the one appended after.
C19_Witness ==
  /\ handlerRan
  /\ 1 \in sigterm
  /\ processes = <<1, 2>>
  /\ pc = "launch"
  /\ svc = 3

\* C20: a termination signal handled while a launch is in progress (after
\* the first spawn attempt of the service, before start_service_with_retry
\* returns) is not acted on in that step: no process group is signalled and
\* the supervisor does not exit.
C20_NoSignalActionMidLaunch ==
  [][(/\ DeliverSIGINT
      /\ launchResult[svc] = "running"
      /\ spawns >= 1
      /\ pc \in {"spawn", "settle", "backoff"}) =>
       /\ sigterm' = sigterm
       /\ pc' # "exited"]_vars

\* C21: the registry only holds handles of processes that were alive at the
\* end of their settle window.  A handle is appended only in the step that
\* ends a settle window with the attempt's process alive; an attempt whose
\* process exited during settle, or whose spawn raised, appends nothing;
\* each service has at most one handle and the handles are in declared
\* service order.
C21_RegistryHoldsSettledSurvivors ==
  [][/\ \A j, k \in 1..Len(processes) : j < k => processes[j] < processes[k]
     /\ \A s \in Registered : launchResult[s] = "handle"
     /\ processes' # processes =>
          /\ pc = "settle"
          /\ pstate[svc] = "alive"
          /\ processes' = Append(processes, svc)
          /\ \A k \in 1..Len(processes) : processes[k] < svc
     /\ (pc = "settle" /\ pstate[svc] # "alive") => processes' = processes
     /\ pc = "spawn" => processes' = processes]_vars

\* C21 witness: the second and the last service failed every attempt; the
\* registry holds the other three handles in declared order.
C21_Witness ==
  /\ pc = "idle"
  /\ launchResult[2] = "None"
  /\ launchResult[5] = "None"
  /\ processes = <<1, 3, 4>>

\* C22: in a run without signals, whatever the spawn and health-check
\* outcomes, the supervisor that has entered the launch loop eventually
\* finishes it and reaches the idle wait: no wait of the launch loop
\* (collecting the output of a failed attempt included) lasts forever.
C22_LaunchLoopReachesIdle == (pc = "launch" /\ svc = 1) ~> (pc = "idle")

\* C23: each declared service is spawned at most max_retries times, and only
\* inside its own launch: a spawn happens only while that service's launch
\* is running and fewer than max_retries spawns were made in it, a launch is
\* called at most once per service, and a service whose launch has returned
\* (handle or None) is never spawned again, whatever becomes of its process.
C23_SpawnsWithinRetryBudget ==
  [][/\ spawns <= max_retries
     /\ spawns' > spawns =>
          /\ pc = "spawn"
          /\ launchResult[svc] = "running"
          /\ spawns < max_retries
          /\ spawns' = spawns + 1
     /\ launched' # launched =>
          /\ launched' = Append(launched, svc)
          /\ \A k \in 1..Len(launched) : launched[k] # svc
          /\ launchResult[svc] = "none"
     /\ \A s \in ServiceIds :
          /\ (pstate[s] # "alive" /\ pstate'[s] = "alive")
               => spawns' = spawns + 1 /\ s = svc
          /\ launchResult[s] \in {"handle", "None"}
               => /\ launchResult'[s] = launchResult[s]
                  /\ (pstate'[s] = "alive" => pstate[s] = "alive")]_vars

\* C23 witness: the second service used up its attempts, the first one's
\* process exited after its launch had returned, and the supervisor idles.
C23_Witness ==
  /\ pc = "idle"
  /\ launchResult[1] = "handle"
  /\ pstate[1] = "absent"
  /\ launchResult[2] = "None"
  /\ status[1] = FALSE

\* C24: a call of kill_process_on_port sends SIGKILL to every listed pid that
\* can be killed: a pid whose kill fails (permission denied, process already
\* gone) does not keep the pids listed after it from being killed.
C24_EveryListedPidKilled ==
  \A i \in 1..Len(lsofResult.pids) :
     (/\ lsofResult.pids[i] = "ok"
      /\ \A j \in 1..Len(lsofResult.pids) :
           lsofResult.pids[j] \in {"ok", "denied", "gone"})
       => i \in killedPids

\* C25: when the supervisor has exited through the termination handler,
\* every process it spawned that is still alive has had its process group
\* sent SIGTERM, the process of an attempt still in its settle window
\* included.
C25_ExitSignalsEveryLiveProcess ==
  (pc = "exited" /\ exitCause = "handler") =>
     \A s \in ServiceIds : pstate[s] = "alive" => s \in sigterm

\* C26: the handler of run_production_fixed.py, for every registry and every
\* subset of registered processes that is already gone, sends SIGTERM to the
\* group of every registered process that still exists and exits with code
\* 0: the lookup error of one handle does not end the loop.
C26_FixedHandlerSkipsGoneHandles ==
  pc = "exited" =>
     /\ exitCode = 0
     /\ exitCause = "handler"
     /\ sigterm = {s \in Registered : pstate[s] # "absent"}

\* C26 witness: of three registered processes the first and the third were
\* gone; the handler signalled the second and the supervisor exited with 0.
C26_Witness ==
  /\ pc = "exited"
  /\ handlerRan
  /\ processes = <<1, 2, 4>>
  /\ pstate[1] = "absent"
  /\ pstate[2] = "alive"
  /\ pstate[4] = "absent"
  /\ sigterm = {2}
  /\ exitCode = 0

====
